---------------------------- MODULE Spec2Model ----------------------------
(***************************************************************************)
(* Model of instagram_demo.py: the batch pipeline of main() and the five   *)
(* functions it calls (load_data, compute_engagement, analyze_hashtags,    *)
(* analyze_posting_times, qc_check).                                       *)
(*                                                                         *)
(* Text is modelled as a sequence of one-character strings, so that        *)
(* str.split, str.strip, str.lower and the regular expressions of qc_check *)
(* are computed character by character.  A float is modelled as an exact   *)
(* fraction, plus the two IEEE-754 specials that int64 / int64 can give    *)
(* (inf and NaN).  A DataFrame is an object on a heap, named by reference, *)
(* so that "df = df.copy()" and "df[col] = ..." mean what they mean in     *)
(* Python.                                                                 *)
(***************************************************************************)
EXTENDS Integers, Sequences, FiniteSets, TLC

VARIABLES
    csv,         \* the rows of instagram_sample_data.csv, as text fields
    pc,          \* position of main()
    heap,        \* the DataFrame objects created so far, by reference
    df,          \* main(): df          (a reference, 0 before assignment)
    df_eng,      \* main(): df_eng
    top_posts,   \* main(): top_posts
    hashtag_df,  \* main(): hashtag_df
    hourly,      \* main(): hourly
    qc_df        \* main(): qc_df

vars == <<csv, pc, heap, df, df_eng, top_posts, hashtag_df, hourly, qc_df>>

-----------------------------------------------------------------------------
(* Characters and Python's str methods                                     *)

UpperCase == <<"A","B","C","D","E","F","G","H","I","J","K","L","M",
               "N","O","P","Q","R","S","T","U","V","W","X","Y","Z">>

LowerCase == <<"a","b","c","d","e","f","g","h","i","j","k","l","m",
               "n","o","p","q","r","s","t","u","v","w","x","y","z">>

Digits == <<"0","1","2","3","4","5","6","7","8","9">>

Range(s) == {s[i] : i \in DOMAIN s}

\* \w of the re module (ASCII part): letters, digits and the underscore
WordChars == Range(UpperCase) \cup Range(LowerCase) \cup Range(Digits) \cup {"_"}

IsWordChar(c) == c \in WordChars

\* \s of the re module, and what str.strip() removes
IsSpace(c) == c \in {" ", "\t", "\n"}

\* the class [\.!?] of the sentence split, also kept by the special-character filter
IsTerminal(c) == c \in {".", "!", "?"}

\* str.lower() on one character
UpperChars == Range(UpperCase)

LowerChar(c) ==
    IF c \in UpperChars
    THEN LowerCase[CHOOSE i \in DOMAIN UpperCase : UpperCase[i] = c]
    ELSE c

\* str.lower()
Lower(s) == [i \in DOMAIN s |-> LowerChar(s[i])]

RECURSIVE LStrip(_)
LStrip(s) == IF s # <<>> /\ IsSpace(Head(s)) THEN LStrip(Tail(s)) ELSE s

RECURSIVE RStrip(_)
RStrip(s) ==
    IF s # <<>> /\ IsSpace(s[Len(s)]) THEN RStrip(SubSeq(s, 1, Len(s) - 1)) ELSE s

\* str.strip()
Strip(s) == RStrip(LStrip(s))

\* str.split(sep) for a one-character separator: "" gives [""]
RECURSIVE Split(_, _)
Split(s, sep) ==
    IF s = <<>> THEN << <<>> >>
    ELSE LET r == Split(Tail(s), sep)
         IN  IF Head(s) = sep
             THEN << <<>> >> \o r
             ELSE << <<Head(s)>> \o Head(r) >> \o Tail(r)

\* sep.join(parts)
RECURSIVE Join(_, _)
Join(sep, parts) ==
    IF parts = <<>> THEN <<>>
    ELSE IF Len(parts) = 1 THEN parts[1]
    ELSE parts[1] \o sep \o Join(sep, Tail(parts))

\* sep.join(parts) for the suggestion texts, which are kept as whole strings
RECURSIVE JoinText(_, _)
JoinText(sep, parts) ==
    IF parts = <<>> THEN ""
    ELSE IF Len(parts) = 1 THEN parts[1]
    ELSE parts[1] \o sep \o JoinText(sep, Tail(parts))

\* sum(len(w) for w in ws)
RECURSIVE SumLen(_)
SumLen(ws) == IF ws = <<>> THEN 0 ELSE Len(Head(ws)) + SumLen(Tail(ws))

-----------------------------------------------------------------------------
(* Floats: what int64 / int64, comparison, mean and round(x, 2) give       *)

RECURSIVE GCD(_, _)
GCD(a, b) == IF b = 0 THEN a ELSE GCD(b, a % b)

\* the finite float n / d (d > 0), kept in lowest terms
Frac(n, d) ==
    LET g == GCD(n, d)
    IN  [kind |-> "finite", n |-> n \div g, d |-> d \div g]

Inf == [kind |-> "inf", n |-> 1, d |-> 0]

NaNFloat == [kind |-> "nan", n |-> 0, d |-> 0]

\* numpy's true division of two non-negative int64: no exception on a zero
\* divisor; x / 0 is inf for x > 0 and 0 / 0 is NaN
TrueDiv(n, d) ==
    IF d # 0 THEN Frac(n, d)
    ELSE IF n > 0 THEN Inf
    ELSE NaNFloat

\* a < b on floats (any comparison with NaN is false)
FloatLess(a, b) ==
    /\ a.kind # "nan" /\ b.kind # "nan"
    /\ a.kind # "inf"
    /\ \/ b.kind = "inf"
       \/ a.n * b.d < b.n * a.d

FloatAdd(a, b) ==
    IF a.kind = "nan" \/ b.kind = "nan" THEN NaNFloat
    ELSE IF a.kind = "inf" \/ b.kind = "inf" THEN Inf
    ELSE Frac(a.n * b.d + b.n * a.d, a.d * b.d)

RECURSIVE FloatSum(_)
FloatSum(xs) == IF xs = <<>> THEN Frac(0, 1) ELSE FloatAdd(Head(xs), FloatSum(Tail(xs)))

IsNotNaN(x) == x.kind # "nan"

\* Series.mean() of a group: NaN entries are skipped (skipna), a group with
\* nothing left has mean NaN, an inf entry makes the mean inf (the rates are
\* never negative, so inf - inf does not occur)
GroupMean(xs) ==
    LET present == SelectSeq(xs, IsNotNaN)
        total   == FloatSum(present)
    IN  IF present = <<>> THEN NaNFloat
        ELSE IF total.kind = "inf" THEN Inf
        ELSE Frac(total.n, total.d * Len(present))

RECURSIVE PowMod(_, _, _)
PowMod(b, e, m) == IF e = 0 THEN 1 % m ELSE (b * PowMod(b, e - 1, m)) % m

\* floor(log2(n / d)) for n, d > 0
RECURSIVE FloorLog2(_, _)
FloorLog2(n, d) ==
    IF n >= 2 * d THEN 1 + FloorLog2(n, 2 * d)
    ELSE IF n < d THEN FloorLog2(2 * n, d) - 1
    ELSE 0

\* Whether the double nearest to m / 200 (m odd, not a multiple of 25, so that
\* m / 200 is no double) lies above m / 200.  The double keeps 53 significant
\* bits of m / 25 (the factor 8 only moves the exponent): it rounds up when the
\* remainder of m * 2^(52 - e) by 25 is more than half of 25.
DoubleIsAbove(m) ==
    LET e == FloorLog2(m, 25)
        r == ((m % 25) * PowMod(2, 52 - e, 25)) % 25
    IN  2 * r > 25

\* round(x, 2) of a finite float x >= 0, in hundredths.  Python rounds the
\* double correctly: away from a tie to the nearest hundredth; at a tie that
\* is a double (an odd multiple of 1/8) to the even hundredth; at a tie that is
\* no double to the side the double lies on.
Round2(x) ==
    LET q == (100 * x.n) \div x.d
        r == (100 * x.n) % x.d
    IN  IF 2 * r < x.d THEN q
        ELSE IF 2 * r > x.d THEN q + 1
        ELSE IF (2 * q + 1) % 25 = 0 THEN (IF q % 2 = 0 THEN q ELSE q + 1)
        ELSE IF DoubleIsAbove(2 * q + 1) THEN q + 1
        ELSE q

-----------------------------------------------------------------------------
(* DataFrames                                                              *)

\* a missing cell of an object column (float NaN); no text is equal to it
NaNCell == << "<NaN>" >>

\* str(x) of a cell of an object column
StrOf(x) == IF x = NaNCell THEN <<"n","a","n">> ELSE x

\* the texts pandas.read_csv reads as a missing value (its default na_values)
NaValues ==
    { <<>>, <<"N","A">>, <<"N","/","A">>, <<"N","a","N">>, <<"n","a","n">>,
      <<"n","u","l","l">>, <<"N","U","L","L">>, <<"n","/","a">>,
      <<"#","N","/","A">>, <<"#","N","A">>, <<"-","N","a","N">>,
      <<"-","n","a","n">>, <<"<","N","A",">">>,
      <<"#","N","/","A"," ","N","/","A">>,
      <<"1",".","#","I","N","D">>, <<"1",".","#","Q","N","A","N">>,
      <<"-","1",".","#","I","N","D">>, <<"-","1",".","#","Q","N","A","N">> }

\* a text field as pandas.read_csv delivers it
ReadField(s) == IF s \in NaValues THEN NaNCell ELSE s

CsvColumns == <<"Post", "Likes", "Comments", "Followers", "Hashtags", "Timestamp">>

\* pd.read_csv(filepath): numeric columns as integers, text columns as text
\* or NaN
ReadCsv(file) ==
    [columns |-> CsvColumns,
     rows    |-> [i \in DOMAIN file |->
                    [Post      |-> ReadField(file[i].Post),
                     Likes     |-> file[i].Likes,
                     Comments  |-> file[i].Comments,
                     Followers |-> file[i].Followers,
                     Hashtags  |-> ReadField(file[i].Hashtags),
                     Timestamp |-> file[i].Timestamp]]]

DigitChars == Range(Digits)

DigitVal(c) == (CHOOSE i \in DOMAIN Digits : Digits[i] = c) - 1

TwoDigits(s, i) == 10 * DigitVal(s[i]) + DigitVal(s[i + 1])

\* whether pd.to_datetime accepts the text: the documented layout
\* YYYY-MM-DD HH:MM:SS with fields in range (other layouts that pandas would
\* also accept are not drawn as inputs)
IsTimestamp(s) ==
    /\ Len(s) = 19
    /\ \A i \in {1, 2, 3, 4, 6, 7, 9, 10, 12, 13, 15, 16, 18, 19} : s[i] \in DigitChars
    /\ s[5] = "-" /\ s[8] = "-" /\ s[11] = " " /\ s[14] = ":" /\ s[17] = ":"
    /\ TwoDigits(s, 6) \in 1..12
    /\ TwoDigits(s, 9) \in 1..31
    /\ TwoDigits(s, 12) \in 0..23
    /\ TwoDigits(s, 15) \in 0..59
    /\ TwoDigits(s, 18) \in 0..59

\* pd.to_datetime of an accepted text
ToDatetime(s) ==
    [year   |-> 100 * TwoDigits(s, 1) + TwoDigits(s, 3),
     month  |-> TwoDigits(s, 6),
     day    |-> TwoDigits(s, 9),
     hour   |-> TwoDigits(s, 12),
     minute |-> TwoDigits(s, 15),
     second |-> TwoDigits(s, 18)]

IsNonEmpty(s) == s # <<>>

\* lambda x: [h.strip() for h in str(x).split(",") if h.strip()]
ParseHashtags(x) ==
    LET parts == Split(StrOf(x), ",")
    IN  SelectSeq([i \in DOMAIN parts |-> Strip(parts[i])], IsNonEmpty)

\* df[name] = values: the column is replaced, or added at the end
SetColumn(f, name, values) ==
    [columns |-> IF name \in Range(f.columns) THEN f.columns ELSE Append(f.columns, name),
     rows    |-> [i \in DOMAIN f.rows |-> (name :> values[i]) @@ f.rows[i]]]

\* a new DataFrame object
NewFrame(h, f) == [heap |-> Append(h, f), ref |-> Len(h) + 1]

\* df.copy() left out: the same object under a second name
DfCopyAlias(h, r) == [heap |-> h, ref |-> r]

\* df.copy(): a new object with the same columns and rows
DfCopy(h, r) == NewFrame(h, h[r])

\* the orders sort_values(by=..., ascending=False) can give to rows with the
\* keys key[i]: descending, NaN keys last.  The default kind is quicksort,
\* which is not stable, so rows with equal keys come in any order.
MustPrecede(a, b) == (a.kind # "nan" /\ b.kind = "nan") \/ FloatLess(b, a)

RECURSIVE DescendingOrders(_, _)
DescendingOrders(S, key) ==
    IF S = {} THEN { <<>> }
    ELSE LET firsts == {i \in S : \A j \in S : ~MustPrecede(key[j], key[i])}
         IN  UNION { { <<i>> \o o : o \in DescendingOrders(S \ {i}, key) } : i \in firsts }

\* a float column as sort keys, and an integer column as the floats of the
\* same values
FloatKeys(f, col) == [i \in DOMAIN f.rows |-> f.rows[i][col]]

IntKeys(f, col) == [i \in DOMAIN f.rows |-> Frac(f.rows[i][col], 1)]

\* the frame with its rows in the order perm
Reorder(f, perm) == [columns |-> f.columns, rows |-> [i \in DOMAIN perm |-> f.rows[perm[i]]]]

\* the frames f.sort_values(by=..., ascending=False) can return, key being
\* the column sorted by
SortValuesDesc(f, key) ==
    { Reorder(f, perm) : perm \in DescendingOrders(DOMAIN f.rows, key) }

-----------------------------------------------------------------------------
(* load_data, compute_engagement, analyze_hashtags, analyze_posting_times  *)

\* load_data(filepath).  pd.to_datetime raises on a text that is no date, and
\* the exception leaves main(); otherwise the frame read is changed in place
\* and returned.
load_data(h, file) ==
    LET read == ReadCsv(file)
        ok   == \A i \in DOMAIN read.rows : IsTimestamp(read.rows[i].Timestamp)
        ts   == [i \in DOMAIN read.rows |-> ToDatetime(read.rows[i].Timestamp)]
        tags == [i \in DOMAIN read.rows |-> ParseHashtags(read.rows[i].Hashtags)]
        made == NewFrame(h, SetColumn(SetColumn(read, "Timestamp", ts), "Hashtags", tags))
    IN  IF ok
        THEN [raised |-> FALSE, heap |-> made.heap, ref |-> made.ref]
        ELSE [raised |-> TRUE,  heap |-> h,         ref |-> 0]

\* the rate with the comments left out
EngagementRateLikesOnly(row) == TrueDiv(row.Likes, row.Followers)

\* (df["Likes"] + df["Comments"]) / df["Followers"], row by row
EngagementRate(row) == TrueDiv(row.Likes + row.Comments, row.Followers)

\* compute_engagement(df)
compute_engagement(h, r) ==
    LET c    == DfCopy(h, r)
        f    == c.heap[c.ref]
        rate == [i \in DOMAIN f.rows |-> EngagementRate(f.rows[i])]
    IN  [heap |-> [c.heap EXCEPT ![c.ref] = SetColumn(f, "EngagementRate", rate)],
         ref  |-> c.ref]

\* list(itertools.chain.from_iterable(lists))
RECURSIVE Chain(_)
Chain(lists) == IF lists = <<>> THEN <<>> ELSE Head(lists) \o Chain(Tail(lists))

\* the keys of Counter(tags), which a dict keeps in the order of first insertion
RECURSIVE CounterKeys(_)
CounterKeys(tags) ==
    IF tags = <<>> THEN <<>>
    ELSE LET rest == CounterKeys(SubSeq(tags, 1, Len(tags) - 1))
             last == tags[Len(tags)]
         IN  IF last \in Range(rest) THEN rest ELSE Append(rest, last)

\* Counter(tags)[t]
CounterCount(tags, t) == Cardinality({i \in DOMAIN tags : tags[i] = t})

\* the counts with the tags lower-cased before they are counted
HashtagCountsIgnoringCase(f) ==
    LET all_tags == Chain([i \in DOMAIN f.rows |->
                             [k \in DOMAIN f.rows[i].Hashtags |-> Lower(f.rows[i].Hashtags[k])]])
        keys     == CounterKeys(all_tags)
    IN  [columns |-> <<"Hashtag", "Count">>,
         rows    |-> [i \in DOMAIN keys |->
                        [Hashtag |-> keys[i], Count |-> CounterCount(all_tags, keys[i])]]]

\* pd.DataFrame(Counter(all_tags).items(), columns=["Hashtag", "Count"])
HashtagCounts(f) ==
    LET all_tags == Chain([i \in DOMAIN f.rows |-> f.rows[i].Hashtags])
        keys     == CounterKeys(all_tags)
    IN  [columns |-> <<"Hashtag", "Count">>,
         rows    |-> [i \in DOMAIN keys |->
                        [Hashtag |-> keys[i], Count |-> CounterCount(all_tags, keys[i])]]]

\* analyze_hashtags(df): the results it can return (one per order of the ties)
analyze_hashtags(h, r) ==
    { NewFrame(h, sorted) : sorted \in SortValuesDesc(HashtagCounts(h[r]), IntKeys(HashtagCounts(h[r]), "Count")) }

\* the sequence of the elements of a set of integers, ascending
RECURSIVE Ascending(_)
Ascending(S) ==
    IF S = {} THEN <<>>
    ELSE LET m == CHOOSE x \in S : \A y \in S : x <= y
         IN  <<m>> \o Ascending(S \ {m})

\* the hourly means with the hours between the first and the last hour that
\* occur filled in with 0.0
HourlyMeanGapsFilled(f) ==
    LET seen  == {f.rows[i].Hour : i \in DOMAIN f.rows}
        hours == Ascending({hr \in 0..23 : \E a \in seen, b \in seen : a <= hr /\ hr <= b})
        InHour(hr) == SelectSeq(f.rows, LAMBDA row : row.Hour = hr)
        Rates(hr)  == [i \in DOMAIN InHour(hr) |-> InHour(hr)[i].EngagementRate]
    IN  [columns |-> <<"Hour", "EngagementRate">>,
         rows    |-> [i \in DOMAIN hours |->
                        [Hour |-> hours[i],
                         EngagementRate |-> IF hours[i] \in seen THEN GroupMean(Rates(hours[i]))
                                            ELSE Frac(0, 1)]]]

\* df.groupby("Hour")["EngagementRate"].mean().reset_index(): one row per
\* hour that occurs, hours ascending
HourlyMean(f) ==
    LET hours == Ascending({f.rows[i].Hour : i \in DOMAIN f.rows})
        InHour(hr) == SelectSeq(f.rows, LAMBDA row : row.Hour = hr)
        Rates(hr)  == [i \in DOMAIN InHour(hr) |-> InHour(hr)[i].EngagementRate]
    IN  [columns |-> <<"Hour", "EngagementRate">>,
         rows    |-> [i \in DOMAIN hours |->
                        [Hour |-> hours[i], EngagementRate |-> GroupMean(Rates(hours[i]))]]]

\* analyze_posting_times(df): the results it can return
analyze_posting_times(h, r) ==
    LET c      == DfCopy(h, r)
        f      == c.heap[c.ref]
        hour   == [i \in DOMAIN f.rows |-> f.rows[i].Timestamp.hour]
        withHr == SetColumn(f, "Hour", hour)
        h2     == [c.heap EXCEPT ![c.ref] = withHr]
        grp    == HourlyMean(withHr)
    IN  { NewFrame(h2, sorted) : sorted \in SortValuesDesc(grp, FloatKeys(grp, "EngagementRate")) }

-----------------------------------------------------------------------------
(* qc_check                                                                *)

\* the set literal "trending" of qc_check
trending ==
    {
      <<"a","r","t">>, <<"a","r","t","i","s","t">>,
      <<"a","r","t","w","o","r","k">>, <<"n","a","i","l","a","r","t">>,
      <<"d","i","g","i","t","a","l","a","r","t">>, <<"a","r","t","e">>,
      <<"i","n","s","t","a","a","r","t">>, <<"a","r","t","i","s","t","s","o","n","i","n","s","t","a","g","r","a","m">>,
      <<"s","t","r","e","e","t","a","r","t">>, <<"a","r","t","o","f","t","h","e","d","a","y">>,
      <<"c","o","n","t","e","m","p","o","r","a","r","y","a","r","t">>, <<"f","a","n","a","r","t">>,
      <<"a","r","t","o","f","v","i","s","u","a","l","s">>, <<"a","r","t","s","y">>,
      <<"a","b","s","t","r","a","c","t","a","r","t">>, <<"f","i","n","e","a","r","t">>,
      <<"a","r","t","g","a","l","l","e","r","y">>, <<"i","n","s","t","a","a","r","t","i","s","t">>,
      <<"a","r","t","s">>, <<"m","y","a","r","t">>,
      <<"a","r","t","i","s","t","i","c">>, <<"m","o","d","e","r","n","a","r","t">>,
      <<"a","n","i","m","e","a","r","t">>, <<"p","i","c","s","a","r","t">>,
      <<"t","a","t","t","o","o","a","r","t">>, <<"n","a","i","l","s","a","r","t">>,
      <<"a","r","t","i","s","t","s">>, <<"u","r","b","a","n","a","r","t">>,
      <<"a","r","t","i","s","t","s","o","f","i","n","s","t","a","g","r","a","m">>, <<"p","e","t">>,
      <<"p","e","t","s">>, <<"p","e","t","s","t","a","g","r","a","m">>,
      <<"p","e","t","s","o","f","i","n","s","t","a","g","r","a","m">>, <<"i","n","s","t","a","p","e","t">>,
      <<"p","e","t","s","a","g","r","a","m">>, <<"p","e","t","l","o","v","e","r","s">>,
      <<"i","n","s","t","a","p","e","t","s">>, <<"p","e","t","s","h","o","p">>,
      <<"m","y","p","e","t">>, <<"p","e","t","p","h","o","t","o","g","r","a","p","h","y">>,
      <<"p","e","t","l","o","v","e">>, <<"c","u","t","e","p","e","t","s">>,
      <<"p","e","t","f","r","i","e","n","d","l","y">>, <<"p","e","t","s","c","o","r","n","e","r">>,
      <<"p","e","t","p","o","r","t","r","a","i","t">>, <<"i","l","o","v","e","m","y","p","e","t">>,
      <<"h","a","p","p","y","_","p","e","t">>, <<"p","e","t","s","o","f","i","n","s","t","a">>,
      <<"p","i","c","p","e","t","s">>, <<"l","o","v","e","p","e","t","s">>,
      <<"n","a","t","i","o","n","a","l","p","e","t","d","a","y">>, <<"w","o","r","l","d","o","f","c","u","t","e","p","e","t","s">>,
      <<"p","e","t","s","m","a","r","t">>, <<"p","e","t","s","i","t","t","i","n","g">>,
      <<"p","e","t","l","i","f","e">>, <<"p","e","t","s","g","r","a","m">>,
      <<"p","e","t","g","r","o","o","m","i","n","g">>, <<"p","e","t","o","f","i","n","s","t","a","g","r","a","m">>,
      <<"t","r","a","v","e","l">>, <<"t","r","a","v","e","l","g","r","a","m">>,
      <<"t","r","a","v","e","l","p","h","o","t","o","g","r","a","p","h","y">>, <<"i","n","s","t","a","t","r","a","v","e","l">>,
      <<"t","r","a","v","e","l","i","n","g">>, <<"t","r","a","v","e","l","l","i","n","g">>,
      <<"t","r","a","v","e","l","b","l","o","g","g","e","r">>, <<"t","r","a","v","e","l","e","r">>,
      <<"t","r","a","v","e","l","l","e","r">>, <<"t","r","a","v","e","l","t","h","e","w","o","r","l","d">>,
      <<"i","g","t","r","a","v","e","l">>, <<"t","r","a","v","e","l","i","n","g","r","a","m">>,
      <<"t","r","a","v","e","l","b","l","o","g">>, <<"m","y","t","r","a","v","e","l","g","r","a","m">>,
      <<"t","r","a","v","e","l","s">>, <<"i","n","s","t","a","t","r","a","v","e","l","i","n","g">>,
      <<"t","r","a","v","e","l","a","d","d","i","c","t">>, <<"t","r","a","v","e","l","p","h","o","t","o">>,
      <<"t","r","a","v","e","l","d","i","a","r","i","e","s">>, <<"t","r","a","v","e","l","a","w","e","s","o","m","e">>,
      <<"w","a","n","d","e","r","l","u","s","t">>, <<"w","a","n","d","e","r","l","u","s","t","i","n","g">>,
      <<"w","a","n","d","e","r","l","u","s","t","e","r">>, <<"w","a","n","d","e","r","l","u","s","t","e","r","s">>,
      <<"w","a","n","d","e","r","l","u","s","t","w","e","d","n","e","s","d","a","y">>, <<"v","i","s","u","a","l","w","a","n","d","e","r","l","u","s","t">>,
      <<"w","a","n","d","e","r","l","u","s","t","l","i","f","e">>, <<"a","s","i","a","n","w","a","n","d","e","r","l","u","s","t">>,
      <<"w","a","n","d","e","r","l","u","s","t","v","i","b","e","s">>, <<"t","r","a","v","e","l","l","i","f","e">> }

\* the first position from lo on where flags has the value want, one past
\* the end when there is none: how far a scan that starts at lo gets
First(flags, want, lo) ==
    CHOOSE j \in lo..(Len(flags) + 1) :
        /\ j = Len(flags) + 1 \/ flags[j] = want
        /\ \A k \in lo..(j - 1) : flags[k] # want

\* where the word characters of s are
WordFlags(s) == [j \in DOMAIN s |-> IsWordChar(s[j])]

\* where a match of #\w+ starts in s: a '#' with a word character after it
TokenFlags(s) == [j \in DOMAIN s |-> s[j] = "#" /\ j < Len(s) /\ IsWordChar(s[j + 1])]

\* where the characters . ! ? of s are
TerminalFlags(s) == [j \in DOMAIN s |-> IsTerminal(s[j])]

\* re.sub(r"#\w+", "", s) from position i on: the text up to the next match
\* stays, the '#' and the word characters that follow it go, and the scan
\* goes on behind them
RECURSIVE RemoveHashtagTokensFrom(_, _, _, _)
RemoveHashtagTokensFrom(s, token, word, i) ==
    LET a == First(token, TRUE, i)
    IN  IF a > Len(s) THEN SubSeq(s, i, Len(s))
        ELSE SubSeq(s, i, a - 1)
               \o RemoveHashtagTokensFrom(s, token, word, First(word, FALSE, a + 1))

RemoveHashtagTokens(s) == RemoveHashtagTokensFrom(s, TokenFlags(s), WordFlags(s), 1)

KeptChar(c) == IsWordChar(c) \/ IsSpace(c) \/ IsTerminal(c)

\* re.sub(r"[^\w\s\.\!\?]", "", s)
StripSpecialChars(s) == SelectSeq(s, KeptChar)

\* re.findall(r"\b\w+\b", s) from position i on: the next maximal run of word
\* characters, then the scan goes on behind it
RECURSIVE FindWordsFrom(_, _, _)
FindWordsFrom(s, word, i) ==
    LET a == First(word, TRUE, i)
        b == First(word, FALSE, a)
    IN  IF a > Len(s) THEN <<>>
        ELSE <<SubSeq(s, a, b - 1)>> \o FindWordsFrom(s, word, b)

FindWords(s) == FindWordsFrom(s, WordFlags(s), 1)

\* re.split(r"[\.!?]+", s) from position i on: the piece up to the next run
\* of terminals, then the pieces behind the run; the piece after the last run
\* is there even when it is empty
RECURSIVE SplitOnTerminalsFrom(_, _, _)
SplitOnTerminalsFrom(s, terminal, i) ==
    LET a == First(terminal, TRUE, i)
    IN  IF a > Len(s) THEN << SubSeq(s, i, Len(s)) >>
        ELSE << SubSeq(s, i, a - 1) >>
               \o SplitOnTerminalsFrom(s, terminal, First(terminal, FALSE, a))

SplitOnTerminals(s) == SplitOnTerminalsFrom(s, TerminalFlags(s), 1)

\* the sentences under the other policy: a text without any terminal has none
SentencesNoneWithoutTerminal(text_only) ==
    LET pieces == SplitOnTerminals(text_only)
    IN  IF Len(pieces) = 1 THEN <<>>
        ELSE SelectSeq([i \in DOMAIN pieces |-> Strip(pieces[i])], IsNonEmpty)

\* [s.strip() for s in re.split(r"[\.!?]+", text_only) if s.strip()]
Sentences(text_only) ==
    LET pieces == SplitOnTerminals(text_only)
    IN  SelectSeq([i \in DOMAIN pieces |-> Strip(pieces[i])], IsNonEmpty)

IsTrending(h) == h \in trending

\* the trending tags used, each named once
TrendingUsedNoDuplicates(hashtags) == CounterKeys(SelectSeq(hashtags, IsTrending))

\* [h for h in hashtags if h in trending]
TrendingUsed(hashtags) == SelectSeq(hashtags, IsTrending)

\* the texts of the suggestions (the dashes of the source written in ASCII)
MsgShorten  == "Consider shortening the caption to keep it concise."
MsgBreak    == "Break long sentences into shorter ones for better readability."
MsgLimit    == "Limit hashtags to 3-5 as recommended by Instagram guidelines."
MsgTrending == "Consider using trending or niche-specific hashtags to increase reach."
MsgAddTags  == "Add a few relevant hashtags to improve discoverability."

\* the thresholds of the rules
MaxCaptionWords   == 40
MaxSentenceWords  == 20
MaxHashtags       == 5
MinHashtags       == 2

\* the suggestions with the first threshold reached at 40 words already
SuggestionsFromFortyWords(word_count, avg_sent_len, hashtag_count, trending_used) ==
    LET s0 == <<>>
        s1 == IF word_count >= MaxCaptionWords THEN Append(s0, MsgShorten) ELSE s0
        s2 == IF avg_sent_len.n > MaxSentenceWords * avg_sent_len.d
              THEN Append(s1, MsgBreak) ELSE s1
        s3 == IF hashtag_count > MaxHashtags THEN Append(s2, MsgLimit) ELSE s2
        s4 == IF trending_used = <<>> THEN Append(s3, MsgTrending) ELSE s3
        s5 == IF hashtag_count < MinHashtags THEN Append(s4, MsgAddTags) ELSE s4
    IN  s5

\* the list "suggestions" of qc_check after its five if statements
Suggestions(word_count, avg_sent_len, hashtag_count, trending_used) ==
    LET s0 == <<>>
        s1 == IF word_count > MaxCaptionWords THEN Append(s0, MsgShorten) ELSE s0
        s2 == IF avg_sent_len.n > MaxSentenceWords * avg_sent_len.d
              THEN Append(s1, MsgBreak) ELSE s1
        s3 == IF hashtag_count > MaxHashtags THEN Append(s2, MsgLimit) ELSE s2
        s4 == IF trending_used = <<>> THEN Append(s3, MsgTrending) ELSE s3
        s5 == IF hashtag_count < MinHashtags THEN Append(s4, MsgAddTags) ELSE s4
    IN  s5

NoneText == <<"N","o","n","e">>

QcColumns == <<"Post", "word_count", "sentence_count", "avg_word_length",
               "avg_sentence_length", "hashtag_count", "trending_hashtags_used",
               "suggestions">>

\* one pass of the loop of qc_check: the dict appended to results.  The two
\* averages are in hundredths, as round(x, 2) leaves them.
QcRow(row) ==
    LET caption        == row.Post
        hashtags       == [i \in DOMAIN row.Hashtags |-> Lower(row.Hashtags[i])]
        text_only      == StripSpecialChars(RemoveHashtagTokens(caption))
        words          == FindWords(text_only)
        sentences      == Sentences(text_only)
        word_count     == Len(words)
        sentence_count == Len(sentences)
        avg_word_len   == IF word_count # 0 THEN Frac(SumLen(words), word_count) ELSE Frac(0, 1)
        avg_sent_len   == IF sentence_count # 0 THEN Frac(word_count, sentence_count) ELSE Frac(0, 1)
        trending_used  == TrendingUsed(hashtags)
        suggestions    == Suggestions(word_count, avg_sent_len, Len(hashtags), trending_used)
    IN  [Post                   |-> caption,
         word_count             |-> word_count,
         sentence_count         |-> sentence_count,
         avg_word_length        |-> Round2(avg_word_len),
         avg_sentence_length    |-> Round2(avg_sent_len),
         hashtag_count          |-> Len(hashtags),
         trending_hashtags_used |-> IF trending_used # <<>> THEN Join(<<",", " ">>, trending_used)
                                    ELSE NoneText,
         suggestions            |-> IF suggestions # <<>> THEN JoinText("; ", suggestions)
                                    ELSE "None"]

\* qc_check(df).  re.sub raises TypeError on a caption that is NaN, and the
\* exception leaves main(); pd.DataFrame([]) has no columns.
qc_check(h, r) ==
    LET f    == h[r]
        ok   == \A i \in DOMAIN f.rows : f.rows[i].Post # NaNCell
        made == NewFrame(h, [columns |-> IF f.rows = <<>> THEN <<>> ELSE QcColumns,
                             rows    |-> [i \in DOMAIN f.rows |-> QcRow(f.rows[i])]])
    IN  IF ok
        THEN [raised |-> FALSE, heap |-> made.heap, ref |-> made.ref]
        ELSE [raised |-> TRUE,  heap |-> h,         ref |-> 0]

-----------------------------------------------------------------------------
(* Input files                                                             *)

\* the longest file of numbers and times, and of hashtag lists, that is tried
MaxRows == 2

\* the longest file of captions that is tried
MaxTextRows == 1

CaptionExample == <<"L","o","v","i","n","g"," ","t","h","i","s"," ","#","s","u","n","s","e","t"," ","#","t","r","a","v","e","l"," ","v","i","e","w","!">>  \* "Loving this #sunset #travel view!"
CaptionOnlyTags == <<"#","a","r","t"," ","#","p","e","t","s">>  \* "#art #pets"
CaptionSpecial == <<"D","o","n","'","t"," ","s","t","o","p",".",".","."," ","g","o","-","g","o"," ","*","n","o","w","*","?","!"," ","#","1">>  \* "Don"t stop... go-go *now*?! #1"
CaptionDots == <<".",".",".">>  \* "..."

TagsExample == <<"s","u","n","s","e","t",",","t","r","a","v","e","l">>  \* "sunset,travel"
TagsRandom == <<"t","r","a","v","e","l",",","m","y","r","a","n","d","o","m","t","a","g","1","2","3">>  \* "travel,myrandomtag123"
TagsMixedCase == <<"T","r","a","v","e","l",","," ","A","R","T"," ",",","t","r","a","v","e","l">>  \* "Travel, ART ,travel"
TagsEmpty == <<>>  \* ""
TagsBlank == <<" ",","," ",",">>  \* " , ,"
TagsOne == <<"a","r","t">>  \* "art"
TagsSix == <<"a","r","t",",","a","r","t",",","a","r","t",",","p","e","t","s",",","p","e","t","s",",","t","r","a","v","e","l">>  \* "art,art,art,pets,pets,travel"

TimeExample == <<"2","0","2","3","-","0","5","-","0","1"," ","1","4",":","0","0",":","0","0">>  \* "2023-05-01 14:00:00"
TimeSameHour == <<"2","0","2","3","-","0","5","-","0","2"," ","1","4",":","3","0",":","5","9">>  \* "2023-05-02 14:30:59"
TimeMorning == <<"2","0","2","3","-","0","5","-","0","1"," ","0","9",":","1","5",":","0","0">>  \* "2023-05-01 09:15:00"
TimeMalformed == <<"n","o","t"," ","a"," ","d","a","t","e">>  \* "not a date"

\* the i-th word of a generated caption
Word(i) == IF i % 2 = 1 THEN <<"g","o">> ELSE <<"a">>

\* a caption of n words separated by blanks, with a full stop after every
\* per-th word (per = 0: no punctuation at all)
RECURSIVE Body(_, _)
Body(n, per) ==
    IF n = 0 THEN <<>>
    ELSE Body(n - 1, per) \o (IF n > 1 THEN <<" ">> ELSE <<>>) \o Word(n)
           \o (IF per > 0 /\ n % per = 0 THEN <<".">> ELSE <<>>)

Captions ==
    { Body(np[1], np[2]) : np \in { <<1, 0>>, <<2, 1>>, <<21, 0>>, <<40, 0>>, <<41, 0>>,
                                    <<41, 20>>, <<42, 21>> } }
    \cup { Body(41, 0) \o <<" ">> \o CaptionOnlyTags,
           CaptionExample, CaptionOnlyTags, CaptionSpecial, CaptionDots, <<>> }

HashtagFields == { TagsExample, TagsRandom, TagsMixedCase, TagsEmpty, TagsBlank }

\* <<Likes, Comments, Followers>>
Stats == { <<50, 5, 1000>>, <<1, 0, 2>>, <<1, 1, 4>>, <<1, 0, 0>>, <<0, 0, 0>> }

CsvRow(post, stat, tags, time) ==
    [Post |-> post, Likes |-> stat[1], Comments |-> stat[2], Followers |-> stat[3],
     Hashtags |-> tags, Timestamp |-> time]

\* the files of at most n rows drawn from R
Files(R, n) == UNION { [1..k -> R] : k \in 0..n }

\* files that differ in their numbers and times
NumberFiles ==
    Files({ CsvRow(CaptionExample, s, TagsExample, TimeExample) : s \in Stats }
            \cup { CsvRow(CaptionExample, s, TagsExample, t) :
                     s \in { <<1, 0, 2>>, <<1, 0, 0>>, <<0, 0, 0>> },
                     t \in { TimeSameHour, TimeMorning } }
            \cup { CsvRow(CaptionExample, <<50, 5, 1000>>, TagsExample, TimeMalformed) },
          MaxRows)

\* files that differ in their hashtag lists
TagFiles ==
    Files({ CsvRow(CaptionExample, <<50, 5, 1000>>, g, TimeExample) : g \in HashtagFields },
          MaxRows)

\* files that differ in their captions
TextFiles ==
    Files({ CsvRow(c, <<50, 5, 1000>>, TagsExample, TimeExample) : c \in Captions }
            \cup { CsvRow(Body(41, 0), <<50, 5, 1000>>, TagsEmpty, TimeExample),
                   CsvRow(Body(41, 20), <<50, 5, 1000>>, TagsSix, TimeExample),
                   CsvRow(Body(42, 21), <<50, 5, 1000>>, TagsMixedCase, TimeExample),
                   CsvRow(Body(40, 0), <<50, 5, 1000>>, TagsOne, TimeExample),
                   CsvRow(Body(1, 0), <<50, 5, 1000>>, TagsSix, TimeExample),
                   CsvRow(CaptionDots, <<50, 5, 1000>>, TagsBlank, TimeExample) },
          MaxTextRows)

-----------------------------------------------------------------------------
(* main()                                                                  *)

Init ==
    /\ csv \in NumberFiles \cup TagFiles \cup TextFiles
    /\ pc = "load_data"
    /\ heap = <<>>
    /\ df = 0
    /\ df_eng = 0
    /\ top_posts = 0
    /\ hashtag_df = 0
    /\ hourly = 0
    /\ qc_df = 0

\* df = load_data("instagram_sample_data.csv")
LoadData ==
    /\ pc = "load_data"
    /\ LET res == load_data(heap, csv)
       IN  \/ /\ ~res.raised
              /\ heap' = res.heap
              /\ df' = res.ref
              /\ pc' = "compute_engagement"
           \/ /\ res.raised
              /\ pc' = "aborted"
              /\ UNCHANGED <<heap, df>>
    /\ UNCHANGED <<csv, df_eng, top_posts, hashtag_df, hourly, qc_df>>

\* df_eng = compute_engagement(df)
ComputeEngagement ==
    /\ pc = "compute_engagement"
    /\ LET res == compute_engagement(heap, df)
       IN  /\ heap' = res.heap
           /\ df_eng' = res.ref
    /\ pc' = "top_posts"
    /\ UNCHANGED <<csv, df, top_posts, hashtag_df, hourly, qc_df>>

\* top_posts = df_eng.sort_values(by="EngagementRate", ascending=False)
TopPosts ==
    /\ pc = "top_posts"
    /\ \E sorted \in SortValuesDesc(heap[df_eng], FloatKeys(heap[df_eng], "EngagementRate")) :
          LET res == NewFrame(heap, sorted)
          IN  /\ heap' = res.heap
              /\ top_posts' = res.ref
    /\ pc' = "analyze_hashtags"
    /\ UNCHANGED <<csv, df, df_eng, hashtag_df, hourly, qc_df>>

\* hashtag_df = analyze_hashtags(df_eng)
AnalyzeHashtags ==
    /\ pc = "analyze_hashtags"
    /\ \E res \in analyze_hashtags(heap, df_eng) :
          /\ heap' = res.heap
          /\ hashtag_df' = res.ref
    /\ pc' = "analyze_posting_times"
    /\ UNCHANGED <<csv, df, df_eng, top_posts, hourly, qc_df>>

\* hourly = analyze_posting_times(df_eng)
AnalyzePostingTimes ==
    /\ pc = "analyze_posting_times"
    /\ \E res \in analyze_posting_times(heap, df_eng) :
          /\ heap' = res.heap
          /\ hourly' = res.ref
    /\ pc' = "qc_check"
    /\ UNCHANGED <<csv, df, df_eng, top_posts, hashtag_df, qc_df>>

\* qc_df = qc_check(df_eng)
QcCheck ==
    /\ pc = "qc_check"
    /\ LET res == qc_check(heap, df_eng)
       IN  \/ /\ ~res.raised
              /\ heap' = res.heap
              /\ qc_df' = res.ref
              /\ pc' = "print"
           \/ /\ res.raised
              /\ pc' = "aborted"
              /\ UNCHANGED <<heap, qc_df>>
    /\ UNCHANGED <<csv, df, df_eng, top_posts, hashtag_df, hourly>>

\* the print statements of main(), which read the frames and change none
PrintReport ==
    /\ pc = "print"
    /\ pc' = "done"
    /\ UNCHANGED <<csv, heap, df, df_eng, top_posts, hashtag_df, hourly, qc_df>>

Next ==
    \/ LoadData
    \/ ComputeEngagement
    \/ TopPosts
    \/ AnalyzeHashtags
    \/ AnalyzePostingTimes
    \/ QcCheck
    \/ PrintReport

Spec == Init /\ [][Next]_vars

-----------------------------------------------------------------------------
(* Properties                                                              *)

\* the tables of main(), once they exist
Loaded  == heap[df].rows
Engaged == heap[df_eng].rows
TagRows == heap[hashtag_df].rows
Hours   == heap[hourly].rows
Report  == heap[qc_df].rows

\* all hashtag occurrences of the table given to analyze_hashtags, in order
AllTags == Chain([i \in DOMAIN Engaged |-> Engaged[i].Hashtags])

(***************************************************************************)
(* C1: the table compute_engagement returns has the rows of its input in   *)
(* the same order, and in every row with Followers > 0 the EngagementRate  *)
(* is exactly (Likes + Comments) / Followers.                              *)
(***************************************************************************)
C1_EngagementRateExact ==
    df_eng # 0 =>
        /\ Len(Engaged) = Len(Loaded)
        /\ \A i \in DOMAIN Loaded :
              /\ \A c \in Range(CsvColumns) : Engaged[i][c] = Loaded[i][c]
              /\ Loaded[i].Followers > 0 =>
                    /\ Engaged[i].EngagementRate.kind = "finite"
                    /\ Engaged[i].EngagementRate.n * Loaded[i].Followers
                         = (Loaded[i].Likes + Loaded[i].Comments) * Engaged[i].EngagementRate.d

\* a post with comments and followers has got its rate, next to a second post
C1_Witness ==
    /\ df_eng # 0
    /\ Len(Engaged) = 2
    /\ \E i \in DOMAIN Engaged :
          /\ Engaged[i].Followers > 0
          /\ Engaged[i].Comments > 0
          /\ Engaged[i].EngagementRate = Frac(11, 200)

(***************************************************************************)
(* C2: a post with Followers = 0 never gets an engagement rate that counts *)
(* as a number in the ranking of the posts and in the hourly mean: its     *)
(* rate is the missing value (or the run has stopped with an error before  *)
(* the rate exists).                                                       *)
(***************************************************************************)
C2_ZeroFollowersNeverCountAsNumber ==
    hourly # 0 =>
        \A i \in DOMAIN Engaged :
            Engaged[i].Followers = 0 => Engaged[i].EngagementRate.kind = "nan"

(***************************************************************************)
(* C3: the suggestions of every row of the quality report are exactly the  *)
(* rules whose condition holds, each judged on its own, in the order       *)
(* shorten (more than 40 words), break up (more than 20 words a sentence), *)
(* limit (more than 5 hashtags), use trending (no trending hashtag), add   *)
(* (fewer than 2 hashtags); without any rule the text is "None".           *)
(***************************************************************************)
RuleTexts == <<MsgShorten, MsgBreak, MsgLimit, MsgTrending, MsgAddTags>>

RuleHolds(k, r) ==
    CASE k = 1 -> r.word_count > 40
      [] k = 2 -> r.sentence_count > 0 /\ r.word_count > 20 * r.sentence_count
      [] k = 3 -> r.hashtag_count > 5
      [] k = 4 -> r.trending_hashtags_used = NoneText
      [] k = 5 -> r.hashtag_count < 2

ExpectedSuggestions(r) ==
    LET fired == SelectSeq(<<1, 2, 3, 4, 5>>, LAMBDA k : RuleHolds(k, r))
    IN  IF fired = <<>> THEN "None"
        ELSE JoinText("; ", [i \in DOMAIN fired |-> RuleTexts[fired[i]]])

C3_SuggestionsAreTheRulesThatHold ==
    qc_df # 0 => \A i \in DOMAIN Report : Report[i].suggestions = ExpectedSuggestions(Report[i])

\* the first and the third rule alone, and a caption of exactly 40 words
\* that is not told to shorten
C3_Witness ==
    /\ qc_df # 0
    /\ \E i \in DOMAIN Report :
          \/ Report[i].suggestions = JoinText("; ", <<MsgShorten, MsgLimit>>)
          \/ Report[i].word_count = 40 /\ Report[i].suggestions = MsgBreak

(***************************************************************************)
(* C4, as amended: analyze_hashtags returns one entry for each distinct    *)
(* tag (letter case told apart, blanks trimmed) with the number of its     *)
(* occurrences, the counts descending; the order of tags with equal counts *)
(* is not fixed.                                                           *)
(***************************************************************************)
C4_OneEntryPerTagCountsDescending ==
    hashtag_df # 0 =>
        /\ {TagRows[i].Hashtag : i \in DOMAIN TagRows} = Range(AllTags)
        /\ Len(TagRows) = Cardinality(Range(AllTags))
        /\ \A i \in DOMAIN TagRows :
              /\ TagRows[i].Count = Cardinality({k \in DOMAIN AllTags : AllTags[k] = TagRows[i].Hashtag})
              /\ TagRows[i].Hashtag # <<>>
              /\ ~IsSpace(TagRows[i].Hashtag[1])
              /\ ~IsSpace(TagRows[i].Hashtag[Len(TagRows[i].Hashtag)])
        /\ \A i \in DOMAIN TagRows : \A j \in DOMAIN TagRows :
              i < j => TagRows[i].Count >= TagRows[j].Count

\* tags that differ in case only are counted apart, above a tag counted once
C4_Witness ==
    /\ hashtag_df # 0
    /\ \E i \in DOMAIN TagRows : \E j \in DOMAIN TagRows :
          /\ TagRows[i].Hashtag = <<"t","r","a","v","e","l">> /\ TagRows[i].Count = 2
          /\ TagRows[j].Hashtag = <<"T","r","a","v","e","l">> /\ TagRows[j].Count = 1
          /\ i < j

\* the place of the first occurrence of a tag
FirstSeen(t) == CHOOSE k \in DOMAIN AllTags : AllTags[k] = t /\ \A m \in 1..(k - 1) : AllTags[m] # t

\* C4 as stated: also, tags with equal counts come in the order in which
\* they were first seen
C4_TiesInFirstSeenOrder ==
    hashtag_df # 0 =>
        /\ C4_OneEntryPerTagCountsDescending
        /\ \A i \in DOMAIN TagRows : \A j \in DOMAIN TagRows :
              (i < j /\ TagRows[i].Count = TagRows[j].Count)
                 => FirstSeen(TagRows[i].Hashtag) < FirstSeen(TagRows[j].Hashtag)

(***************************************************************************)
(* C5: the table analyze_posting_times returns has a row for hour h        *)
(* exactly when a post falls in hour h, the row holds the arithmetic mean  *)
(* of the rates of all the posts of that hour, and the rows come with      *)
(* descending mean.                                                        *)
(***************************************************************************)
RatesIn(h) ==
    LET posts == SelectSeq(Engaged, LAMBDA row : row.Timestamp.hour = h)
    IN  [i \in DOMAIN posts |-> posts[i].EngagementRate]

\* the sum of all the values divided by their number
ArithmeticMean(xs) ==
    LET total == FloatSum(xs)
    IN  IF total.kind = "finite" THEN Frac(total.n, total.d * Len(xs)) ELSE total

C5_HourlyMeanOverAllPostsOfTheHour ==
    hourly # 0 =>
        /\ \A h \in 0..23 :
              (\E i \in DOMAIN Hours : Hours[i].Hour = h)
                 <=> (\E k \in DOMAIN Engaged : Engaged[k].Timestamp.hour = h)
        /\ \A i \in DOMAIN Hours : \A j \in DOMAIN Hours : i # j => Hours[i].Hour # Hours[j].Hour
        /\ \A i \in DOMAIN Hours : Hours[i].EngagementRate = ArithmeticMean(RatesIn(Hours[i].Hour))
        /\ \A i \in DOMAIN Hours : \A j \in DOMAIN Hours :
              i < j => ~FloatLess(Hours[i].EngagementRate, Hours[j].EngagementRate)

(***************************************************************************)
(* C6: trending_hashtags_used of every row of the quality report names the *)
(* post's hashtags, lower-cased, that are in the trending set, in their    *)
(* order and as often as they occur ("None" when there is none): travel    *)
(* alone for [travel, myrandomtag123], and Travel and ART count as travel  *)
(* and art.                                                                *)
(***************************************************************************)
RECURSIVE ExpectedTrending(_)
ExpectedTrending(tags) ==
    IF tags = <<>> THEN <<>>
    ELSE LET low == [k \in DOMAIN Head(tags) |-> LowerChar(Head(tags)[k])]
         IN  (IF low \in trending THEN <<low>> ELSE <<>>) \o ExpectedTrending(Tail(tags))

C6_TrendingUsedIsTheSubsequence ==
    qc_df # 0 =>
        \A i \in DOMAIN Report :
            LET want == ExpectedTrending(Engaged[i].Hashtags)
            IN  /\ Report[i].trending_hashtags_used
                     = IF want = <<>> THEN NoneText ELSE Join(<<",", " ">>, want)
                /\ Engaged[i].Hashtags = << <<"t","r","a","v","e","l">>,
                                            <<"m","y","r","a","n","d","o","m","t","a","g","1","2","3">> >>
                      => Report[i].trending_hashtags_used = <<"t","r","a","v","e","l">>

\* a post tagged Travel, ART, travel next to one tagged travel, myrandomtag123
C6_Witness ==
    /\ qc_df # 0
    /\ \E i \in DOMAIN Report :
          /\ Engaged[i].Hashtags = << <<"T","r","a","v","e","l">>, <<"A","R","T">>,
                                      <<"t","r","a","v","e","l">> >>
          /\ Report[i].trending_hashtags_used
                = <<"t","r","a","v","e","l",","," ","a","r","t",","," ","t","r","a","v","e","l">>
    /\ \E i \in DOMAIN Report :
          /\ Engaged[i].Hashtags = << <<"t","r","a","v","e","l">>,
                                      <<"m","y","r","a","n","d","o","m","t","a","g","1","2","3">> >>
          /\ Report[i].trending_hashtags_used = <<"t","r","a","v","e","l">>

(***************************************************************************)
(* C7: a caption in which qc_check finds 41 words and which has none of    *)
(* the characters . ! ? is told to shorten, and counts as one sentence:    *)
(* sentence_count = 1 and avg_sentence_length = word_count.                *)
(***************************************************************************)
\* the texts of the rules after the first that pick chooses
RestTexts(pick) ==
    LET ks == SelectSeq(<<2, 3, 4, 5>>, LAMBDA m : pick[m])
    IN  [k \in DOMAIN ks |-> RuleTexts[ks[k]]]

\* the text begins with the advice to shorten
SaysShorten(text) ==
    \E pick \in [2..5 -> BOOLEAN] : text = JoinText("; ", <<MsgShorten>> \o RestTexts(pick))

HasNoTerminal(s) == \A k \in DOMAIN s : s[k] \notin {".", "!", "?"}

C7_FortyOneWordsWithoutTerminal ==
    qc_df # 0 =>
        \A i \in DOMAIN Report :
            (Report[i].word_count = 41 /\ HasNoTerminal(Report[i].Post)) =>
                /\ SaysShorten(Report[i].suggestions)
                /\ Report[i].sentence_count = 1
                /\ Report[i].avg_sentence_length = 100 * Report[i].word_count

\* such a caption has been checked
C7_Witness ==
    /\ qc_df # 0
    /\ \E i \in DOMAIN Report :
          /\ Report[i].word_count = 41
          /\ HasNoTerminal(Report[i].Post)
          /\ Report[i].sentence_count = 1

(***************************************************************************)
(* C8: a post whose Hashtags field is empty, or holds commas and blanks    *)
(* only, is loaded with an empty hashtag list; it adds nothing to the      *)
(* hashtag counts, and its row of the quality report has hashtag_count 0   *)
(* and trending_hashtags_used "None".                                      *)
(***************************************************************************)
IsBlankField(s) == \A k \in DOMAIN s : s[k] = "," \/ IsSpace(s[k])

C8_EmptyHashtagFieldGivesEmptyList ==
    \A i \in DOMAIN csv :
        IsBlankField(csv[i].Hashtags) =>
            /\ df # 0 => Loaded[i].Hashtags = <<>>
            /\ hashtag_df # 0 => Engaged[i].Hashtags = <<>>
            /\ qc_df # 0 => /\ Report[i].hashtag_count = 0
                            /\ Report[i].trending_hashtags_used = NoneText

(***************************************************************************)
(* C9, as amended: the engagement table, the hourly table and the quality  *)
(* report have at most as many rows as the input table; the hashtag table  *)
(* has at most as many rows as there are hashtag occurrences in the input  *)
(* table, which can be more than the input table has rows.                 *)
(***************************************************************************)
C9_RowCounts ==
    /\ df_eng # 0 => Len(Engaged) <= Len(Loaded)
    /\ hourly # 0 => Len(Hours) <= Len(Loaded)
    /\ qc_df # 0 => Len(Report) <= Len(Loaded)
    /\ hashtag_df # 0 => Len(TagRows) <= Len(AllTags)

\* two posts of one hour with three different hashtags
C9_Witness ==
    /\ pc = "done"
    /\ Len(Loaded) = 2
    /\ Len(Hours) = 1
    /\ Len(TagRows) = 3
    /\ Len(Report) = 2

\* C9 as stated: every derived table has at most as many rows as the input
C9_NoTableLongerThanInput ==
    /\ df_eng # 0 => Len(Engaged) <= Len(Loaded)
    /\ hourly # 0 => Len(Hours) <= Len(Loaded)
    /\ qc_df # 0 => Len(Report) <= Len(Loaded)
    /\ hashtag_df # 0 => Len(TagRows) <= Len(Loaded)

(***************************************************************************)
(* C10: no stage after loading changes a table that exists: every frame    *)
(* keeps its columns, rows and cells, and what a stage returns is a new    *)
(* frame.                                                                  *)
(***************************************************************************)
C10_StagesLeaveTheirInputUnchanged ==
    [][ df # 0 =>
          /\ \A r \in DOMAIN heap : r \in DOMAIN heap' /\ heap'[r] = heap[r]
          /\ df' = df
          /\ df_eng' # df_eng => df_eng' \notin DOMAIN heap
          /\ top_posts' # top_posts => top_posts' \notin DOMAIN heap
          /\ hashtag_df' # hashtag_df => hashtag_df' \notin DOMAIN heap
          /\ hourly' # hourly => hourly' \notin DOMAIN heap
          /\ qc_df' # qc_df => qc_df' \notin DOMAIN heap ]_vars

\* all stages have run, and the loaded table has no EngagementRate column and
\* the engagement table no Hour column
C10_Witness ==
    /\ pc = "done"
    /\ Len(Loaded) > 0
    /\ heap[df].columns = CsvColumns
    /\ heap[df_eng].columns = Append(CsvColumns, "EngagementRate")
    /\ Cardinality({df, df_eng, top_posts, hashtag_df, hourly, qc_df}) = 6

=============================================================================
